---- MODULE Spec2Model ----
(***************************************************************************)
(* A model of orm.py: the Field descriptor, the Condition tree and its     *)
(* lowering to parameterised predicate text, and the Model CRUD protocol   *)
(* (create / delete / save / select) over the two demo schemas             *)
(*     Speaker{name: str}  and  Talk{duration: int, speaker: Speaker}.     *)
(* (The demo's further str columns, company and title, behave exactly as   *)
(* name does and are left out.)                                            *)
(*                                                                         *)
(* Encoding.  Python's None is the integer -1 (identifiers and literals    *)
(* of the model are naturals).  Predicate text is the sequence of its      *)
(* blank-separated tokens; a placeholder name is the string the f-string   *)
(* builds ("var" followed by the decimal digits of the counter value).     *)
(*                                                                         *)
(* Three specifications share the state:                                   *)
(*   SpecLower  Condition trees built and lowered against the counter;     *)
(*   SpecSave   create / delete / construct / assign / save / select on    *)
(*              the reference-free schema Speaker;                         *)
(*   Spec       the same operations on both schemas, Talk.speaker being a  *)
(*              reference that Field.__set__ hydrates.                     *)
(***************************************************************************)
EXTENDS Integers, Sequences, FiniteSets, TLC

VARIABLES
    counter,    \* the value the next next(counter) returns (module global)
    allocated,  \* history: every placeholder name handed out so far, in order
    where,      \* SpecLower: the Condition tree under test
    lowered,    \* SpecLower: what where.to_sql() last returned
    speakers,   \* the table "speakers" of the store
    talks,      \* the table "talks" of the store
    me,         \* the caller's Speaker variable (a Speaker instance, or unbound)
    talk,       \* the caller's Talk variable (a Talk instance, or unbound)
    last,       \* the operation just completed: statements sent, raised or not
    fetched     \* the instances the last select() yielded, in order

vars == <<counter, allocated, where, lowered, speakers, talks, me, talk, last, fetched>>

lowerVars == <<counter, allocated, where, lowered>>
crudVars == <<speakers, talks, me, talk, last, fetched>>

(***************************************************************************)
(* Bounds and value sets.                                                  *)
(***************************************************************************)
MaxId == 2          \* SpecSave: at most this many rows; identifiers offered are 0..MaxId
MaxRows == 1        \* Spec: at most this many rows per table
MaxCounter == 4     \* SpecLower: next(counter) is called at most this many times
MaxQueries == 2     \* Spec: next(counter) is called at most this many times
MaxLeaves == 3      \* Condition trees under test have at most this many leaves

None == -1

Names == {"Jonathan", "Anna"}
Durations == {45, 60}
RowIds == {1, 2}    \* the identifiers used in filter literals and fixture rows
Ids == 0..MaxId
IdOrNone == Ids \cup {None}

Max(S) == CHOOSE x \in S : \A y \in S : y <= x
Min(S) == CHOOSE x \in S : \A y \in S : x <= y

(***************************************************************************)
(* f"var{n}": the decimal rendering of the counter value.                  *)
(***************************************************************************)
Digits == <<"0", "1", "2", "3", "4", "5", "6", "7", "8", "9">>

RECURSIVE Str(_)
Str(n) == IF n < 10 THEN Digits[n + 1] ELSE Str(n \div 10) \o Digits[(n % 10) + 1]

(***************************************************************************)
(* Condition trees.  Field.__eq__ builds a leaf; Condition.__or__ (and the *)
(* public BoolCondition constructor, for any operator) an interior node.   *)
(***************************************************************************)
Field_eq(field, value) ==
    [kind |-> "Condition", op |-> "=", field |-> field, value |-> value]

BoolCondition(op, cond1, cond2) ==
    [kind |-> "BoolCondition", op |-> op, cond1 |-> cond1, cond2 |-> cond2]

Condition_or(self, other) == BoolCondition("OR", self, other)

\* {**vals1, **vals2}: the right operand wins on a shared key
DictMerge(vals1, vals2) ==
    [k \in (DOMAIN vals1) \cup (DOMAIN vals2) |->
        IF k \in DOMAIN vals2 THEN vals2[k] ELSE vals1[k]]

\* a variant that allocates no fresh name: the placeholder is always var0
Condition_to_sql_Stale(self, n) ==
    [sql |-> <<self.field, self.op, ":" \o ("var" \o Str(0))>>,
     vals |-> (("var" \o Str(0)) :> self.value),
     n |-> n,
     used |-> <<"var" \o Str(0)>>]

\* Condition.to_sql(): n is the counter before the call; the result carries
\* the text, the parameter mapping, the counter after the call and (as
\* instrumentation) the placeholder names the call allocated.
Condition_to_sql(self, n) ==
    LET placeholder == "var" \o Str(n)
    IN [sql |-> <<self.field, self.op, ":" \o placeholder>>,
        vals |-> (placeholder :> self.value),
        n |-> n + 1,
        used |-> <<placeholder>>]

RECURSIVE to_sql(_, _)

\* a variant that keeps only the left operand's parameters
BoolCondition_to_sql_DropRight(self, n) ==
    LET r1 == to_sql(self.cond1, n)
        r2 == to_sql(self.cond2, r1.n)
    IN [sql |-> r1.sql \o <<self.op>> \o r2.sql,
        vals |-> r1.vals,
        n |-> r2.n,
        used |-> r1.used \o r2.used]

\* BoolCondition.to_sql(): cond1 is lowered first, then cond2
BoolCondition_to_sql(self, n) ==
    LET r1 == to_sql(self.cond1, n)
        r2 == to_sql(self.cond2, r1.n)
    IN [sql |-> r1.sql \o <<self.op>> \o r2.sql,
        vals |-> DictMerge(r1.vals, r2.vals),
        n |-> r2.n,
        used |-> r1.used \o r2.used]

\* the dynamic dispatch of cond.to_sql()
to_sql(cond, n) ==
    IF cond.kind = "BoolCondition"
    THEN BoolCondition_to_sql(cond, n)
    ELSE Condition_to_sql(cond, n)

RECURSIVE LeavesOf(_)
\* the leaves of a tree, left to right
LeavesOf(cond) ==
    IF cond.kind = "BoolCondition"
    THEN LeavesOf(cond.cond1) \o LeavesOf(cond.cond2)
    ELSE <<cond>>

RECURSIVE OrOnly(_)
OrOnly(cond) ==
    IF cond.kind = "BoolCondition"
    THEN cond.op = "OR" /\ OrOnly(cond.cond1) /\ OrOnly(cond.cond2)
    ELSE TRUE

(***************************************************************************)
(* The store's reading of predicate text (cur.execute of a WHERE clause):  *)
(* OR binds weakest, then AND, then a parenthesised predicate or a         *)
(* comparison  <column> = :<name>.  A comparison with NULL is not true.    *)
(***************************************************************************)
ParenDepth(toks, i) ==
    Cardinality({j \in 1..(i - 1) : toks[j] = "("})
        - Cardinality({j \in 1..(i - 1) : toks[j] = ")"})

TopLevel(toks, word) ==
    {i \in 1..Len(toks) : toks[i] = word /\ ParenDepth(toks, i) = 0}

Bound(vals, tok) == vals[CHOOSE k \in DOMAIN vals : (":" \o k) = tok]

RECURSIVE SqlEval(_, _, _)
SqlEval(toks, vals, row) ==
    IF TopLevel(toks, "OR") # {}
    THEN LET i == Min(TopLevel(toks, "OR"))
         IN \/ SqlEval(SubSeq(toks, 1, i - 1), vals, row)
            \/ SqlEval(SubSeq(toks, i + 1, Len(toks)), vals, row)
    ELSE IF TopLevel(toks, "AND") # {}
    THEN LET i == Min(TopLevel(toks, "AND"))
         IN /\ SqlEval(SubSeq(toks, 1, i - 1), vals, row)
            /\ SqlEval(SubSeq(toks, i + 1, Len(toks)), vals, row)
    ELSE IF toks[1] = "("
    THEN SqlEval(SubSeq(toks, 2, Len(toks) - 1), vals, row)
    ELSE /\ row[toks[1]] # None
         /\ Bound(vals, toks[3]) # None
         /\ row[toks[1]] = Bound(vals, toks[3])

(***************************************************************************)
(* The Condition trees put under test: every tree with at most MaxLeaves   *)
(* leaves over the integer columns of Talk, built with Field.__eq__ and    *)
(* the BoolCondition constructor.                                          *)
(***************************************************************************)
BoolOps == {"OR", "AND"}

LeafConditions ==
    {Field_eq("id", v) : v \in RowIds} \cup {Field_eq("duration", v) : v \in Durations}

RECURSIVE TreesWith(_)
TreesWith(k) ==
    IF k = 1
    THEN LeafConditions
    ELSE UNION {
            {BoolCondition(op, c1, c2) :
                op \in BoolOps, c1 \in TreesWith(j), c2 \in TreesWith(k - j)}
            : j \in 1..(k - 1)}

TreesUpTo(m) == UNION {TreesWith(k) : k \in 1..m}

\* the rows predicates are evaluated against
FixtureRows == [id : RowIds, duration : Durations]

NotLowered == [done |-> FALSE, sql |-> <<>>, vals |-> <<>>, from |-> 0]

(***************************************************************************)
(* The store and the caller's variables, as they are before any call.      *)
(***************************************************************************)
NoTable == [exists |-> FALSE, rows |-> {}]
Unbound == [live |-> FALSE, id |-> None, name |-> "", duration |-> None,
            speaker |-> [kind |-> "none", id |-> None]]
Idle == [op |-> "", cls |-> "", stmts |-> <<>>, raised |-> FALSE]

InitCrud ==
    /\ speakers = NoTable
    /\ talks = NoTable
    /\ me = Unbound
    /\ talk = Unbound
    /\ last = Idle
    /\ fetched = <<>>

(***************************************************************************)
(* SpecLower: building Condition trees and lowering them, one after the    *)
(* other, against the process-wide counter.                                *)
(***************************************************************************)
InitLower ==
    /\ counter = 0
    /\ allocated = <<>>
    /\ where \in TreesUpTo(MaxLeaves)
    /\ lowered = NotLowered
    /\ InitCrud

\* the caller builds another filter expression: a fresh leaf, or the current
\* one combined with a fresh leaf on either side
Build ==
    /\ \E leaf \in LeafConditions, op \in BoolOps :
          \/ where' = leaf
          \/ /\ Len(LeavesOf(where)) < MaxLeaves
             /\ where' \in {BoolCondition(op, where, leaf), BoolCondition(op, leaf, where)}
    /\ lowered' = NotLowered
    /\ UNCHANGED <<counter, allocated>>
    /\ UNCHANGED crudVars

\* where.to_sql()
Lower ==
    /\ counter + Len(LeavesOf(where)) <= MaxCounter
    /\ LET r == to_sql(where, counter)
       IN /\ lowered' = [done |-> TRUE, sql |-> r.sql, vals |-> r.vals, from |-> counter]
          /\ counter' = r.n
          /\ allocated' = allocated \o r.used
    /\ UNCHANGED where
    /\ UNCHANGED crudVars

NextLower == Build \/ Lower

SpecLower == InitLower /\ [][NextLower]_vars

(***************************************************************************)
(* Instances.  A Speaker instance is [live, id, name], a Talk instance     *)
(* [live, id, duration, speaker] (one record shape serves both; the fields *)
(* a class does not declare keep their default).  The value of             *)
(* Talk.speaker is [kind, id] with kind                                    *)
(*   "alias": the very object the caller's variable me is bound to,        *)
(*   "obj"  : a Speaker instance no variable is bound to (hydrated by      *)
(*            Field.__set__ from a raw identifier),                        *)
(*   "none" : None (a NULL column read back),                              *)
(*   "int"  : a raw identifier, as passed to a setter.                     *)
(* Of a Speaker object no variable is bound to, only the id is read again  *)
(* (by Field.to_sql), so only its id is kept.                              *)
(***************************************************************************)
NoRef == [kind |-> "none", id |-> None]
Alias == [kind |-> "alias", id |-> None]
RawId(k) == [kind |-> "int", id |-> k]
ObjOf(inst) == [kind |-> "obj", id |-> inst.id]

Speaker(id, name) ==
    [live |-> TRUE, id |-> id, name |-> name, duration |-> None, speaker |-> NoRef]
Talk(id, duration, speaker) ==
    [live |-> TRUE, id |-> id, name |-> "", duration |-> duration, speaker |-> speaker]

\* value.id for the value of a reference field
RefId(value) == IF value.kind = "alias" THEN me.id ELSE value.id

\* Python truthiness of an identifier: None and 0 are falsy
Truthy(v) == v # None /\ v # 0

\* `if self.id:` in Model.save
IdIsSet(id) == Truthy(id)

(***************************************************************************)
(* The store (sqlite behind sql_run / sql_select).  A table is             *)
(* [exists, rows]; rows of speakers are [id, name], rows of talks          *)
(* [id, duration, speaker].  A statement on a missing table is rejected.   *)
(***************************************************************************)
RECURSIVE SortedById(_)
\* rows in rowid order, the order the store yields them in
SortedById(rows) ==
    IF rows = {} THEN <<>>
    ELSE LET first == CHOOSE r \in rows : \A q \in rows : r.id <= q.id
         IN <<first>> \o SortedById(rows \ {first})

\* cur.lastrowid of an INSERT without id: the largest rowid plus one
LastRowId(rows) == IF rows = {} THEN 1 ELSE Max({r.id : r \in rows}) + 1

\* a variant without the WHERE clause: every row is overwritten
SqlUpdate_NoWhere(rows, id, values) ==
    {[c \in DOMAIN r |-> IF c = "id" THEN r.id ELSE values[c]] : r \in rows}

\* UPDATE <table> SET <col> = :<col>, ... WHERE id=:id
SqlUpdate(rows, id, values) ==
    {IF r.id = id
     THEN [c \in DOMAIN r |-> IF c = "id" THEN r.id ELSE values[c]]
     ELSE r : r \in rows}

\* INSERT INTO <table> (<cols>) VALUES (<:cols>)
SqlInsert(rows, values) ==
    rows \cup {[c \in (DOMAIN values) \cup {"id"} |->
                  IF c = "id" THEN LastRowId(rows) ELSE values[c]]}

\* SELECT * FROM <table> WHERE <predicate>
SqlSelect(table, sql, vals) ==
    SortedById({row \in table.rows : sql = <<"1=1">> \/ SqlEval(sql, vals, row)})

(***************************************************************************)
(* Field                                                                   *)
(***************************************************************************)
NoWhere == [kind |-> "None"]

\* Model.select up to the rows read: lowers the filter, runs the query.
\* The result carries the counter after the call and the names allocated.
SelectRows(table, cond, n) ==
    LET r == IF cond = NoWhere
             THEN [sql |-> <<"1=1">>, vals |-> <<>>, n |-> n, used |-> <<>>]
             ELSE to_sql(cond, n)
    IN [raised |-> ~table.exists,
        rows |-> IF table.exists THEN SqlSelect(table, r.sql, r.vals) ELSE <<>>,
        n |-> r.n,
        used |-> r.used]

\* Speaker(**dict(row)): every column is an int or str column, stored as is
SpeakerOfRow(row) == Speaker(row.id, row.name)

\* a variant that stores the raw identifier
Field_set_Raw(value, n) ==
    [raised |-> FALSE, value |-> value, n |-> n, used |-> <<>>]

\* Field.__set__ on Talk.speaker (py_type Speaker): a raw int is replaced by
\* next(Speaker.select(Speaker.id == value)); next() on an empty result raises
Field_set(value, n) ==
    IF value.kind = "int"
    THEN LET q == SelectRows(speakers, Field_eq("id", value.id), n)
         IN IF q.raised \/ q.rows = <<>>
            THEN [raised |-> TRUE, value |-> value, n |-> q.n, used |-> q.used]
            ELSE [raised |-> FALSE, value |-> ObjOf(SpeakerOfRow(q.rows[1])),
                  n |-> q.n, used |-> q.used]
    ELSE [raised |-> FALSE, value |-> value, n |-> n, used |-> <<>>]

\* a variant that serialises every reference as NULL
Field_to_sql_Null(value) == None

\* Field.to_sql on Talk.speaker: value.id
Field_to_sql(value) == RefId(value)

\* the `values` dict of Model.save
SaveValues(cls, inst) ==
    IF cls = "Speaker"
    THEN [name |-> inst.name]
    ELSE [duration |-> inst.duration, speaker |-> Field_to_sql(inst.speaker)]

(***************************************************************************)
(* Model.save, as a function of the instance and its table: the table and  *)
(* the instance's id afterwards, the write statements sent, raised or not. *)
(***************************************************************************)
\* a variant that takes the identifier before the write has succeeded
Model_save_EarlyId(cls, inst, table) ==
    LET values == SaveValues(cls, inst)
    IN IF IdIsSet(inst.id)
       THEN [table |-> IF table.exists
                       THEN [table EXCEPT !.rows = SqlUpdate(@, inst.id, values)]
                       ELSE table,
             id |-> inst.id, stmts |-> <<"UPDATE">>, raised |-> ~table.exists]
       ELSE [table |-> IF table.exists
                       THEN [table EXCEPT !.rows = SqlInsert(@, values)]
                       ELSE table,
             id |-> LastRowId(table.rows),
             stmts |-> <<"INSERT">>, raised |-> ~table.exists]

Model_save(cls, inst, table) ==
    LET values == SaveValues(cls, inst)
    IN IF IdIsSet(inst.id)
       THEN [table |-> IF table.exists
                       THEN [table EXCEPT !.rows = SqlUpdate(@, inst.id, values)]
                       ELSE table,
             id |-> inst.id, stmts |-> <<"UPDATE">>, raised |-> ~table.exists]
       ELSE [table |-> IF table.exists
                       THEN [table EXCEPT !.rows = SqlInsert(@, values)]
                       ELSE table,
             id |-> IF table.exists THEN LastRowId(table.rows) ELSE inst.id,
             stmts |-> <<"INSERT">>, raised |-> ~table.exists]

(***************************************************************************)
(* Model.select: the rows read are turned into instances one by one, each  *)
(* column through Field.__set__; a failing hydration ends the sequence     *)
(* after the instances already yielded.                                    *)
(***************************************************************************)
RECURSIVE HydrateTalks(_, _)
HydrateTalks(rows, n) ==
    IF rows = <<>>
    THEN [raised |-> FALSE, out |-> <<>>, n |-> n, used |-> <<>>]
    ELSE LET row == Head(rows)
             s == IF row.speaker = None
                  THEN [raised |-> FALSE, value |-> NoRef, n |-> n, used |-> <<>>]
                  ELSE Field_set(RawId(row.speaker), n)
         IN IF s.raised
            THEN [raised |-> TRUE, out |-> <<>>, n |-> s.n, used |-> s.used]
            ELSE LET rest == HydrateTalks(Tail(rows), s.n)
                 IN [raised |-> rest.raised,
                     out |-> <<Talk(row.id, row.duration, s.value)>> \o rest.out,
                     n |-> rest.n,
                     used |-> s.used \o rest.used]

Model_select(cls, cond, n) ==
    IF cls = "Speaker"
    THEN LET q == SelectRows(speakers, cond, n)
         IN [raised |-> q.raised,
             out |-> [i \in 1..Len(q.rows) |-> SpeakerOfRow(q.rows[i])],
             n |-> q.n, used |-> q.used]
    ELSE LET q == SelectRows(talks, cond, n)
             h == HydrateTalks(q.rows, q.n)
         IN [raised |-> q.raised \/ h.raised, out |-> h.out,
             n |-> h.n, used |-> q.used \o h.used]

(***************************************************************************)
(* The caller's operations.                                                *)
(***************************************************************************)
Classes == {"Speaker", "Talk"}

InstOf(cls) == IF cls = "Speaker" THEN me ELSE talk
TableOf(cls) == IF cls = "Speaker" THEN speakers ELSE talks

\* what `last` records of a save, a select or an assignment to Talk.speaker
\* (op "set", also when the constructor makes it); every other operation
\* leaves Idle
Did(op, cls, stmts, raised) ==
    [op |-> op, cls |-> cls, stmts |-> stmts, raised |-> raised]

Init ==
    /\ counter = 0
    /\ allocated = <<>>
    /\ where = NoWhere
    /\ lowered = NotLowered
    /\ InitCrud

\* cls.delete(): DROP TABLE IF EXISTS
Delete(cls) ==
    /\ speakers' = IF cls = "Speaker" THEN NoTable ELSE speakers
    /\ talks' = IF cls = "Talk" THEN NoTable ELSE talks
    /\ last' = Idle
    /\ fetched' = <<>>
    /\ UNCHANGED <<me, talk>>
    /\ UNCHANGED lowerVars

\* cls.create(): CREATE TABLE, rejected by the store when the table exists
Create(cls) ==
    /\ speakers' = IF cls = "Speaker" /\ ~speakers.exists
                   THEN [exists |-> TRUE, rows |-> {}] ELSE speakers
    /\ talks' = IF cls = "Talk" /\ ~talks.exists
                THEN [exists |-> TRUE, rows |-> {}] ELSE talks
    /\ last' = Idle
    /\ fetched' = <<>>
    /\ UNCHANGED <<me, talk>>
    /\ UNCHANGED lowerVars

\* me = Speaker(id=id, name=name)  (id=None: the keyword is left out).
\* The caller rebinds me only while no Talk refers to the object me is bound
\* to, so every Speaker object a Talk refers to is me or a hydrated one.
NewSpeaker(id, name) ==
    /\ ~(talk.live /\ talk.speaker.kind = "alias")
    /\ me' = Speaker(id, name)
    /\ last' = Idle
    /\ fetched' = <<>>
    /\ UNCHANGED <<speakers, talks, talk>>
    /\ UNCHANGED lowerVars

\* talk = Talk(id=id, duration=duration, speaker=arg)
NewTalk(id, duration, arg) ==
    LET s == Field_set(arg, counter)
    IN /\ arg.kind = "alias" => me.live
       /\ s.n <= MaxQueries
       /\ talk' = IF s.raised THEN talk ELSE Talk(id, duration, s.value)
       /\ last' = Did("set", "Talk", <<>>, s.raised)
       /\ counter' = s.n
       /\ allocated' = allocated \o s.used
       /\ fetched' = <<>>
       /\ UNCHANGED <<speakers, talks, me, where, lowered>>

\* inst.id = v   (Field("id", int).__set__ stores the value as it is)
SetId(cls, v) ==
    /\ InstOf(cls).live
    /\ me' = IF cls = "Speaker" THEN [me EXCEPT !.id = v] ELSE me
    /\ talk' = IF cls = "Talk" THEN [talk EXCEPT !.id = v] ELSE talk
    /\ last' = Idle
    /\ fetched' = <<>>
    /\ UNCHANGED <<speakers, talks>>
    /\ UNCHANGED lowerVars

\* me.name = v
SetName(v) ==
    /\ me.live
    /\ me' = [me EXCEPT !.name = v]
    /\ last' = Idle
    /\ fetched' = <<>>
    /\ UNCHANGED <<speakers, talks, talk>>
    /\ UNCHANGED lowerVars

\* talk.duration = v
SetDuration(v) ==
    /\ talk.live
    /\ talk' = [talk EXCEPT !.duration = v]
    /\ last' = Idle
    /\ fetched' = <<>>
    /\ UNCHANGED <<speakers, talks, me>>
    /\ UNCHANGED lowerVars

\* talk.speaker = arg
SetSpeaker(arg) ==
    LET s == Field_set(arg, counter)
    IN /\ talk.live
       /\ arg.kind = "alias" => me.live
       /\ s.n <= MaxQueries
       /\ talk' = IF s.raised THEN talk ELSE [talk EXCEPT !.speaker = s.value]
       /\ last' = Did("set", "Talk", <<>>, s.raised)
       /\ counter' = s.n
       /\ allocated' = allocated \o s.used
       /\ fetched' = <<>>
       /\ UNCHANGED <<speakers, talks, me, where, lowered>>

\* inst.save(), the store holding at most cap rows per table
Save(cls, cap) ==
    LET r == Model_save(cls, InstOf(cls), TableOf(cls))
    IN /\ InstOf(cls).live
       /\ Cardinality(r.table.rows) <= cap
       /\ speakers' = IF cls = "Speaker" THEN r.table ELSE speakers
       /\ talks' = IF cls = "Talk" THEN r.table ELSE talks
       /\ me' = IF cls = "Speaker" THEN [me EXCEPT !.id = r.id] ELSE me
       /\ talk' = IF cls = "Talk" THEN [talk EXCEPT !.id = r.id] ELSE talk
       /\ last' = Did("save", cls, r.stmts, r.raised)
       /\ fetched' = <<>>
       /\ UNCHANGED lowerVars

\* list(cls.select(cond))
Select(cls, cond) ==
    LET q == Model_select(cls, cond, counter)
    IN /\ q.n <= MaxQueries
       /\ fetched' = q.out
       /\ last' = Did("select", cls, <<>>, q.raised)
       /\ counter' = q.n
       /\ allocated' = allocated \o q.used
       /\ UNCHANGED <<speakers, talks, me, talk, where, lowered>>

\* the filters a caller selects with: none, or  cls.id == k
Filters(ids) == {NoWhere} \cup {Field_eq("id", k) : k \in ids}

(***************************************************************************)
(* SpecSave: one schema without references (Speaker), every identifier     *)
(* 0..MaxId or None assignable, up to MaxId rows.                          *)
(***************************************************************************)
NextSave ==
    \/ Delete("Speaker")
    \/ Create("Speaker")
    \/ \E id \in IdOrNone, name \in Names : NewSpeaker(id, name)
    \/ \E v \in IdOrNone : SetId("Speaker", v)
    \/ \E v \in Names : SetName(v)
    \/ Save("Speaker", MaxId)
    \/ \E cond \in Filters(Ids) : Select("Speaker", cond)

SpecSave == Init /\ [][NextSave]_vars

(***************************************************************************)
(* Spec: both schemas, Talk referencing Speaker; up to MaxRows rows per    *)
(* table, one speaker name, identifiers assigned by save() only.           *)
(***************************************************************************)
RefIds == 1..MaxRows
SpeakerArgs == {RawId(k) : k \in RefIds} \cup {Alias}

Next ==
    \/ \E cls \in Classes : Delete(cls)
    \/ \E cls \in Classes : Create(cls)
    \/ NewSpeaker(None, "Jonathan")
    \/ \E d \in Durations, arg \in SpeakerArgs : NewTalk(None, d, arg)
    \/ \E v \in Durations : SetDuration(v)
    \/ \E arg \in SpeakerArgs : SetSpeaker(arg)
    \/ \E cls \in Classes : Save(cls, MaxRows)
    \/ \E cond \in Filters(RefIds) : Select("Talk", cond)

Spec == Init /\ [][Next]_vars

(***************************************************************************)
(* Properties of lowering (checked under SpecLower).                       *)
(***************************************************************************)
Range(f) == {f[i] : i \in DOMAIN f}

\* the placeholder tokens of a predicate text, left to right
PlaceholdersOf(sql) ==
    SelectSeq(sql, LAMBDA tok : \E k \in Range(allocated) : (":" \o k) = tok)

\* C4: lowering a Condition tree with n leaves yields a parameter mapping with
\* exactly n distinct keys, the i-th placeholder of the text bound to the i-th
\* leaf's literal, whatever the nesting and also when leaves share a field;
\* and no placeholder name is ever allocated twice by the process.
C4_UniqueParameterTokens ==
    /\ \A i, j \in 1..Len(allocated) : i # j => allocated[i] # allocated[j]
    /\ lowered.done =>
         LET leaves == LeavesOf(where)
             phs == PlaceholdersOf(lowered.sql)
         IN /\ Cardinality(DOMAIN lowered.vals) = Len(leaves)
            /\ Len(phs) = Len(leaves)
            /\ \A i \in 1..Len(leaves) : Bound(lowered.vals, phs[i]) = leaves[i].value

\* C4 witness: a nested tree of three leaves, two of them on the same field,
\* lowered after an earlier lowering already used the counter
C4_Witness ==
    /\ lowered.done
    /\ lowered.from > 0
    /\ where.kind = "BoolCondition"
    /\ where.cond1.kind = "BoolCondition"
    /\ Len(LeavesOf(where)) = 3
    /\ \E i, j \in 1..3 : i # j /\ LeavesOf(where)[i].field = LeavesOf(where)[j].field
                               /\ LeavesOf(where)[i].value # LeavesOf(where)[j].value

\* C5 (as claimed): lowering an interior node returns the text
\* "(<left_text>) <bool_op> (<right_text>)", each side wrapped in parentheses.
C5_ParenthesisedText ==
    (lowered.done /\ where.kind = "BoolCondition") =>
        LET r1 == to_sql(where.cond1, lowered.from)
            r2 == to_sql(where.cond2, r1.n)
        IN lowered.sql = <<"(">> \o r1.sql \o <<")", where.op, "(">> \o r2.sql \o <<")">>

\* the row satisfies at least one leaf's equality  field = literal
SomeLeafHolds(cond, row) ==
    \E i \in 1..Len(LeavesOf(cond)) :
        row[LeavesOf(cond)[i].field] = LeavesOf(cond)[i].value

\* C6: for a tree of equality leaves combined with OR only, in any nesting, the
\* lowered text with its parameter mapping matches a row iff the row satisfies
\* at least one leaf's equality.
C6_OrMatchesSomeLeaf ==
    (lowered.done /\ OrOnly(where)) =>
        \A row \in FixtureRows :
            SqlEval(lowered.sql, lowered.vals, row) <=> SomeLeafHolds(where, row)

\* C6 witness: (A == a) OR (B == b) on two different fields has been lowered,
\* and the fixture holds a row it matches and a row it does not
C6_Witness ==
    /\ lowered.done
    /\ where.kind = "BoolCondition" /\ where.op = "OR"
    /\ where.cond1.kind = "Condition" /\ where.cond2.kind = "Condition"
    /\ where.cond1.field # where.cond2.field
    /\ \E row \in FixtureRows : SqlEval(lowered.sql, lowered.vals, row)
    /\ \E row \in FixtureRows : ~SqlEval(lowered.sql, lowered.vals, row)

(***************************************************************************)
(* Properties of save (checked under SpecSave).                            *)
(***************************************************************************)
SaveStep(cls) == last'.op = "save" /\ last'.cls = cls /\ InstOf(cls).live

HasRow(table, id) == table.exists /\ \E row \in table.rows : row.id = id

\* C1 (as claimed): save() decides between UPDATE and INSERT on whether the id
\* is None: any non-None id gives exactly one UPDATE and no INSERT; a None id
\* gives exactly one INSERT, after which the id is the generated identifier
\* (stated where the table exists, so that the store accepts the write).
C1_SaveDecidesOnNone ==
    [][(SaveStep("Speaker") /\ speakers.exists) =>
          IF me.id # None
          THEN last'.stmts = <<"UPDATE">>
          ELSE /\ last'.stmts = <<"INSERT">>
               /\ ~last'.raised => me'.id = LastRowId(speakers.rows)]_vars

\* C2 (as claimed): an instance whose id has once been non-None keeps that very
\* id ever after.  Stated for the steps of one instance other than an
\* assignment to its id field: save() and assignments to its other fields.
\* (Rebinding the variable to a new instance is not a step of the old one.)
C2_IdAssignedOnce ==
    [][(/\ me.live
        /\ me.id # None
        /\ ~(\E id \in IdOrNone, name \in Names : NewSpeaker(id, name))
        /\ ~(\E v \in IdOrNone : SetId("Speaker", v)))
       => me'.id = me.id]_vars

\* C3: a save() of an instance whose id N is that of a stored row (as after a
\* first save() and an assignment to a non-id field) leaves the id N and the
\* number of rows unchanged, makes the row with id N hold the instance's
\* current field values, and leaves every other row as it was.
C3_UpdateInPlace ==
    [][(SaveStep("Speaker") /\ me.id # None /\ HasRow(speakers, me.id)) =>
          /\ me'.id = me.id
          /\ last'.stmts = <<"UPDATE">>
          /\ Cardinality(speakers'.rows) = Cardinality(speakers.rows)
          /\ [id |-> me.id, name |-> me.name] \in speakers'.rows
          /\ \A row \in speakers.rows : row.id # me.id => row \in speakers'.rows]_vars

\* C3 witness: an UPDATE has just succeeded on a table of two rows; the
\* instance's row holds its name and the other row holds the other name
C3_Witness ==
    /\ last.op = "save" /\ last.stmts = <<"UPDATE">> /\ ~last.raised
    /\ Cardinality(speakers.rows) = 2
    /\ [id |-> me.id, name |-> me.name] \in speakers.rows
    /\ \E row \in speakers.rows : row.id # me.id /\ row.name # me.name

\* C9: a save() whose write the store rejects raises and leaves the instance
\* (its id and its field values) and the table as they were.
C9_RejectedSaveChangesNothing ==
    [][(SaveStep("Speaker") /\ last'.raised) => (me' = me /\ speakers' = speakers)]_vars

\* C9 witness: an INSERT has just been rejected and the id is still None
C9_Witness ==
    /\ last.op = "save" /\ last.raised /\ last.stmts = <<"INSERT">>
    /\ me.live /\ me.id = None

(***************************************************************************)
(* Properties of references (checked under Spec).                          *)
(***************************************************************************)
\* what Field.__set__ is to store for an argument
Hydrated(arg) == IF arg.kind = "int" THEN [kind |-> "obj", id |-> arg.id] ELSE arg

\* C7: an assignment of a raw identifier K to Talk.speaker that returns (made
\* directly, by the constructor or by select() on a row) stores a Speaker
\* instance whose id is K, never the bare K; any other value, and any value of
\* a non-reference field, is stored as it is.
C7_ReferenceHydrated ==
    [][/\ (last'.op = "set" /\ ~last'.raised) =>
            /\ \A arg \in SpeakerArgs :
                  SetSpeaker(arg) => talk'.speaker = Hydrated(arg)
            /\ \A arg \in SpeakerArgs, d \in Durations :
                  NewTalk(None, d, arg) =>
                     (talk'.speaker = Hydrated(arg) /\ talk'.duration = d /\ talk'.id = None)
       /\ last'.op = "" => \A d \in Durations : SetDuration(d) => talk'.duration = d
       /\ last'.op = "select" =>
            \A i \in 1..Len(fetched') :
                \E row \in talks.rows :
                    /\ fetched'[i].id = row.id
                    /\ fetched'[i].duration = row.duration
                    /\ fetched'[i].speaker =
                         IF row.speaker = None THEN NoRef ELSE Hydrated(RawId(row.speaker))]_vars

\* C7 witness: an assignment of a raw identifier has just returned and the
\* field holds a Speaker instance with the id of a stored speaker
C7_Witness ==
    /\ last.op = "set" /\ ~last.raised
    /\ talk.live /\ talk.speaker.kind = "obj"
    /\ HasRow(speakers, talk.speaker.id)
    /\ counter > 0

\* C8 (as claimed): save() of a Talk whose speaker has no id yet raises, sends
\* no write statement and stores nothing (stated where the store would accept
\* the write).
C8_UnsavedReferenceRejected ==
    [][(SaveStep("Talk") /\ talks.exists /\ RefId(talk.speaker) = None) =>
          (last'.raised /\ last'.stmts = <<>> /\ talks' = talks)]_vars

\* a select by the instance's id right after its successful save()
RefetchStep ==
    /\ last.op = "save" /\ last.cls = "Talk" /\ ~last.raised
    /\ last'.op = "select"
    /\ talk.live
    /\ Select("Talk", Field_eq("id", talk.id))

\* the select yielded exactly the instance: same id, same duration, the
\* speaker hydrated to an instance with the id of talk's speaker
Refetched ==
    /\ ~last'.raised
    /\ Len(fetched') = 1
    /\ fetched'[1].id = talk.id
    /\ fetched'[1].duration = talk.duration
    /\ fetched'[1].speaker = [kind |-> "obj", id |-> RefId(talk.speaker)]

\* C10 (as claimed): for every instance with all fields set and its reference
\* pointing at an instance that has an id, save() followed by
\* select(id == r.id) yields exactly one instance, equal to r field by field.
C10_RoundTripAsClaimed ==
    [][(RefetchStep /\ RefId(talk.speaker) # None) => Refetched]_vars

\* C10 (amended): the same, for an instance whose table holds a row with its id
\* once save() has returned, and whose reference points at an instance whose id
\* is that of a row of the referenced table.
C10_RoundTrip ==
    [][(/\ RefetchStep
        /\ HasRow(talks, talk.id)
        /\ HasRow(speakers, RefId(talk.speaker)))
       => Refetched]_vars

\* C10 witness: the select after a save has just yielded the one instance
\* with the talk's id, duration and speaker id
C10_Witness ==
    /\ last.op = "select" /\ ~last.raised
    /\ talk.live /\ talk.id # None
    /\ Len(fetched) = 1
    /\ fetched[1].id = talk.id
    /\ fetched[1].duration = talk.duration
    /\ fetched[1].speaker = [kind |-> "obj", id |-> RefId(talk.speaker)]
    /\ HasRow(speakers, RefId(talk.speaker))

====
